---- MODULE Spec2Model ----
(***************************************************************************)
(* Model of the weather_app backend (backend/app): the HTTP handlers of    *)
(* main.py, the queries of crud.py, the upstream adapter of weather_api.py *)
(* and the three tables of models.py.                                      *)
(*                                                                         *)
(* Every request is a process whose position (pc) advances by one          *)
(* database statement or one upstream call at a time; requests served by   *)
(* different workers share only the database, so their statements          *)
(* interleave freely.  The database is PostgreSQL at READ COMMITTED: every *)
(* statement sees the rows committed before it, primary keys come from a   *)
(* sequence that never hands out a value twice, and the foreign keys of    *)
(* models.py reject a row whose location does not exist.                   *)
(*                                                                         *)
(* Units: time in seconds; temperatures in hundredths of a degree, so      *)
(* that 273.15 K is the integer 27315.                                     *)
(***************************************************************************)
EXTENDS Integers, Sequences, FiniteSets, TLC

\* ------------------------------------------------------------------ bounds
MaxReq == 2
MaxTime == 90
MaxReads == 1

\* ------------------------------------------------------- program constants
DEDUP_WINDOW == 60
KELVIN_OFFSET == 27315
SAMPLES_PER_DAY == 8

\* ----------------------------------------------------------- input domains
Cities == {"London", "london"}
Lower(s) == IF s = "London" THEN "london" ELSE s
TickSteps == {30}
Timestamps == {1700000000}

None == [none |-> TRUE]

\* JSON bodies the upstream /weather endpoint answers with
CurrentResponses ==
  { [main |-> [temp |-> 28315, humidity |-> 50, pressure |-> 1000],
     weather |-> << [description |-> "clear sky", icon |-> "01d"] >>,
     coord |-> [lat |-> 51, lon |-> 0],
     sys |-> [country |-> "GB"], name |-> "London"],
    [main |-> [temp |-> 29315, humidity |-> 80, pressure |-> 1010],
     weather |-> << [description |-> "light rain", icon |-> "10d"] >>,
     coord |-> [lat |-> 52, lon |-> 1],
     sys |-> [country |-> "GB"], name |-> "London"],
    [main |-> [temp |-> 28315, humidity |-> 101, pressure |-> 1000],
     weather |-> << [description |-> "clear sky", icon |-> "01d"] >>,
     coord |-> [lat |-> 91, lon |-> 181],
     sys |-> [country |-> "GB"], name |-> "London"] }

\* the lat and lon query parameters of the two ingestion endpoints: absent, or both given
QueryCoords == { None, [lat |-> 10, lon |-> 20] }

\* JSON bodies the upstream onecall/timemachine endpoint answers with
HistoricalResponses ==
  { [lat |-> 51, lon |-> 0,
     data |-> << [temp |-> 700, humidity |-> 60, pressure |-> 1005, dt |-> 1700000000,
                  weather |-> << [description |-> "mist", icon |-> "50d"] >>] >>],
    [lat |-> 51, lon |-> 0,
     data |-> << [temp |-> 900, humidity |-> 65, pressure |-> 1005, dt |-> 1700000000,
                  weather |-> << [description |-> "fog", icon |-> "50d"] >>] >>],
    [lat |-> 51, lon |-> 0, data |-> << >>] }

\* JSON bodies the upstream /forecast endpoint answers with: n entries, 3 hours apart
SeriesLengths == {0, 7, 8, 16, 17, 40, 41}
ForecastResponses ==
  { [list |-> [i \in 1..n |->
                 [dt |-> 1700000000 + 10800 * i,
                  main |-> [temp |-> 27315 + 10 * i, humidity |-> 50, pressure |-> 1000],
                  weather |-> << [description |-> "clear sky", icon |-> "01d"] >>]]]
      : n \in SeriesLengths }
\* values of the days query parameter a client may send
DaysInputs == 0..6

\* bodies of PUT /weather/{id} and PUT /historical-weather/{id}
UpdateBodies == { [temperature |-> 500, description |-> "edited"] }

\* bodies of POST /locations/
LocationBodies ==
  { [city |-> c, country |-> "US", latitude |-> 40, longitude |-> -83] : c \in Cities }
  \cup { [city |-> "London", country |-> "US", latitude |-> 91, longitude |-> -83],
         [city |-> "London", country |-> "US", latitude |-> 40, longitude |-> -181] }

VARIABLES now, locations, weather_records, historical_records,
          loc_seq, wr_seq, hr_seq, reqs

vars == << now, locations, weather_records, historical_records,
           loc_seq, wr_seq, hr_seq, reqs >>

store == << locations, weather_records, historical_records, loc_seq, wr_seq, hr_seq >>

\* ====================================================== weather_api.py
kelvin_to_celsius(kelvin) == kelvin - KELVIN_OFFSET

\* datetime.fromtimestamp: a naive local date-time
fromtimestamp(ts) == [naive |-> ts]

\* the dict get_current_weather returns for an upstream body
current_payload(data) ==
  [temperature |-> kelvin_to_celsius(data.main.temp),
   humidity |-> data.main.humidity,
   pressure |-> data.main.pressure,
   description |-> data.weather[1].description,
   icon |-> data.weather[1].icon,
   latitude |-> data.coord.lat,
   longitude |-> data.coord.lon,
   country |-> data.sys.country]

\* the Python slice s[:k], k >= 0
Slice(s, k) == SubSeq(s, 1, IF k < Len(s) THEN k ELSE Len(s))

\* a forecast that converts the whole upstream series
get_weather_forecast_unsliced(data, days) ==
  [i \in 1..Len(data.list) |->
     [temperature |-> kelvin_to_celsius(data.list[i].main.temp),
      humidity |-> data.list[i].main.humidity,
      pressure |-> data.list[i].main.pressure,
      description |-> data.list[i].weather[1].description,
      icon |-> data.list[i].weather[1].icon,
      timestamp |-> fromtimestamp(data.list[i].dt)]]

\* the list get_weather_forecast returns for an upstream body
get_weather_forecast(data, days) ==
  LET items == Slice(data.list, days * SAMPLES_PER_DAY) IN
  [i \in 1..Len(items) |->
     [temperature |-> kelvin_to_celsius(items[i].main.temp),
      humidity |-> items[i].main.humidity,
      pressure |-> items[i].main.pressure,
      description |-> items[i].weather[1].description,
      icon |-> items[i].weather[1].icon,
      timestamp |-> fromtimestamp(items[i].dt)]]

\* the adapter as it would be if it also copied the icon of the upstream body
historical_payload_icon(data) ==
  [temperature |-> data.data[1].temp,
   humidity |-> data.data[1].humidity,
   pressure |-> data.data[1].pressure,
   description |-> data.data[1].weather[1].description,
   icon |-> data.data[1].weather[1].icon,
   timestamp |-> fromtimestamp(data.data[1].dt),
   latitude |-> data.lat,
   longitude |-> data.lon]

\* the dict get_historical_weather returns for an upstream body with data
historical_payload(data) ==
  [temperature |-> data.data[1].temp,
   humidity |-> data.data[1].humidity,
   pressure |-> data.data[1].pressure,
   description |-> data.data[1].weather[1].description,
   timestamp |-> fromtimestamp(data.data[1].dt),
   latitude |-> data.lat,
   longitude |-> data.lon]

\* ============================================================= crud.py
ilike(value, pattern) == Lower(value) = Lower(pattern)

\* the rows get_location_by_city's query selects; .first() takes any of them.
\* ("if country:" is false for the default None and for the empty string, here "")
get_location_by_city(city, country) ==
  { l \in locations : /\ ilike(l.city, city)
                      /\ (country # "" => l.country = country) }

\* the rows get_weather_records selects with skip = 0 and a limit above their number:
\* those joined to a Location whose city equals the argument exactly, within the dates
get_weather_records(city, start_date, end_date) ==
  { w \in weather_records :
      /\ (city # "" => \E l \in locations : l.id = w.location_id /\ l.city = city)
      /\ (start_date # None => w.timestamp >= start_date.naive)
      /\ (end_date # None => w.timestamp <= end_date.naive) }

\* the row create_location adds
create_location(location) ==
  [id |-> loc_seq, city |-> location.city, country |-> location.country,
   latitude |-> location.latitude, longitude |-> location.longitude]

\* the row as it would be with a column default evaluated once, at import
create_weather_record_frozen(weather) ==
  [id |-> wr_seq, location_id |-> weather.location_id,
   temperature |-> weather.temperature, humidity |-> weather.humidity,
   pressure |-> weather.pressure, description |-> weather.description,
   icon |-> weather.icon, timestamp |-> 0]

\* the row as it would be if the icon were left to the column default
create_weather_record_noicon(weather) ==
  [id |-> wr_seq, location_id |-> weather.location_id,
   temperature |-> weather.temperature, humidity |-> weather.humidity,
   pressure |-> weather.pressure, description |-> weather.description,
   icon |-> "01d", timestamp |-> now]

\* the row create_weather_record adds; timestamp is the column default utcnow
create_weather_record(weather) ==
  [id |-> wr_seq, location_id |-> weather.location_id,
   temperature |-> weather.temperature, humidity |-> weather.humidity,
   pressure |-> weather.pressure, description |-> weather.description,
   icon |-> weather.icon, timestamp |-> now]

\* the rows create_historical_weather_record's lookup selects
existing_historical(weather) ==
  { h \in historical_records : /\ h.location_id = weather.location_id
                               /\ h.query_timestamp = weather.query_timestamp }

\* the row create_historical_weather_record adds when the lookup found none
new_historical(weather) ==
  [id |-> hr_seq, location_id |-> weather.location_id,
   temperature |-> weather.temperature, humidity |-> weather.humidity,
   pressure |-> weather.pressure, description |-> weather.description,
   icon |-> weather.icon, timestamp |-> weather.timestamp,
   query_timestamp |-> weather.query_timestamp]

\* =========================================================== schemas.py
\* a LocationBase whose latitude may be as large as a longitude
LocationBase_valid_loose(location) ==
  /\ location.latitude >= -180 /\ location.latitude <= 180
  /\ location.longitude >= -180 /\ location.longitude <= 180

\* the Field constraints of LocationBase
LocationBase_valid(location) ==
  /\ location.latitude >= -90 /\ location.latitude <= 90
  /\ location.longitude >= -180 /\ location.longitude <= 180

\* the Field constraint of WeatherRecordBase
WeatherRecordBase_valid(weather) ==
  weather.humidity >= 0 /\ weather.humidity <= 100

\* ============================================================ models.py
\* ForeignKey("locations.id") of both record tables
fk_ok(location_id) == \E l \in locations : l.id = location_id

\* a relationship without the cascade
cascade_weather_none(location_id) == {}

\* cascade="all, delete-orphan": the rows that go with a location
cascade_weather(location_id) == { w \in weather_records : w.location_id = location_id }
cascade_historical(location_id) == { h \in historical_records : h.location_id = location_id }

\* ============================================================== main.py
\* the query with its comparison turned around
existing_record_reversed(location_id) ==
  { w \in weather_records : /\ w.location_id = location_id
                            /\ w.timestamp <= now - DEDUP_WINDOW }

\* the recent-record query of get_current_weather; .first() takes any row
existing_record(location_id) ==
  { w \in weather_records : /\ w.location_id = location_id
                            /\ w.timestamp >= now - DEDUP_WINDOW }

\* a LocationCreate with the two coordinates exchanged
ingest_location_swapped(city, city_data) ==
  [city |-> city, country |-> city_data.country,
   latitude |-> city_data.longitude, longitude |-> city_data.latitude]

\* the LocationCreate both ingestion handlers build: the path's city, the country and
\* the coordinates of the current-weather payload
ingest_location(city, city_data) ==
  [city |-> city, country |-> city_data.country,
   latitude |-> city_data.latitude, longitude |-> city_data.longitude]

\* a handler that answers with the row it stored
current_response_record(weather_data, weather_record) ==
  IF weather_record = None THEN weather_data ELSE weather_record

\* what get_current_weather returns
current_response(weather_data, weather_record) == weather_data

\* an update that writes every column it can, as crud.update_weather_record does
apply_update_all(db_weather, weather) ==
  [db_weather EXCEPT !.temperature = weather.temperature,
                     !.description = weather.description,
                     !.icon = "01d"]

\* "Update only temperature and description" of update_weather and
\* update_historical_weather
apply_update(db_weather, weather) ==
  [db_weather EXCEPT !.temperature = weather.temperature,
                     !.description = weather.description]

\* ------------------------------------------------------------ requests
NewReq(kind) ==
  [kind |-> kind, pc |-> "start", city |-> "", query |-> None, ts |-> 0, days |-> 0, target |-> 0,
   body |-> None,
   raw |-> None, weather_data |-> None, hist_raw |-> None, hist_data |-> None,
   location |-> 0, weather |-> None,
   status |-> 0, response |-> None,
   started |-> now, after |-> { i \in 1..Len(reqs) : reqs[i].pc = "done" },
   calls |-> 0, checked |-> -1, norecent |-> FALSE,
   inserted |-> 0, created |-> 0, present |-> {}, wrote |-> FALSE]

Live == { r \in 1..Len(reqs) : reqs[r].pc # "done" }
Done == { r \in 1..Len(reqs) : reqs[r].pc = "done" }

Init ==
  /\ now = 0
  /\ locations = {}
  /\ weather_records = {}
  /\ historical_records = {}
  /\ loc_seq = 1
  /\ wr_seq = 1
  /\ hr_seq = 1
  /\ reqs = << >>

\* the clock advances
Tick ==
  /\ \E d \in TickSteps : now + d <= MaxTime /\ now' = now + d
  /\ UNCHANGED << store, reqs >>

Finish(q, status, response) ==
  [q EXCEPT !.pc = "done", !.status = status, !.response = response]

\* requests.RequestException of a transport failure or of raise_for_status
TransportErrors == { [error |-> "ConnectionError"] }

\* a handler without the except clause
on_weather_api_exception_unhandled(q, e) ==
  Finish(q, 500, [detail |-> << "Internal Server Error" >>])

\* "except weather_api.WeatherAPIException as e: raise HTTPException(503, str(e))"
on_weather_api_exception(q, e) ==
  Finish(q, 503, [detail |-> e])

\* ---------------------------------------- GET /weather/current/{city}
\* the request arrives and weather_api.get_current_weather calls upstream, by the
\* coordinates of the query when both are given and by the city name otherwise; what
\* upstream answers is its own choice either way
CurFetch ==
  /\ Len(reqs) < MaxReq
  /\ \E city \in Cities, query \in QueryCoords, up \in CurrentResponses \cup TransportErrors :
       LET q == [NewReq("current") EXCEPT !.city = city, !.query = query, !.calls = 1] IN
       reqs' = Append(reqs,
                 IF up \in TransportErrors
                 THEN on_weather_api_exception(q, << "Failed to fetch weather data", up.error >>)
                 ELSE [q EXCEPT !.pc = "resolve", !.raw = up,
                                !.weather_data = current_payload(up)])
  /\ UNCHANGED << now, store >>

\* a handler that would bring the Location it found up to date with the payload
CurResolve_refresh(r) ==
  /\ reqs[r].kind = "current" /\ reqs[r].pc = "resolve"
  /\ LET found == get_location_by_city(reqs[r].city, reqs[r].weather_data.country) IN
     IF found = {}
     THEN reqs' = [reqs EXCEPT ![r].pc = "create_location"] /\ UNCHANGED locations
     ELSE \E l \in found :
            /\ reqs' = [reqs EXCEPT ![r].pc = "check", ![r].location = l.id]
            /\ locations' = (locations \ {l}) \cup
                              {[l EXCEPT !.latitude = reqs[r].weather_data.latitude,
                                         !.longitude = reqs[r].weather_data.longitude]}
  /\ UNCHANGED << now, weather_records, historical_records, loc_seq, wr_seq, hr_seq >>

\* crud.get_location_by_city(db, city, weather_data["country"])
CurResolve(r) ==
  /\ reqs[r].kind = "current" /\ reqs[r].pc = "resolve"
  /\ LET found == get_location_by_city(reqs[r].city, reqs[r].weather_data.country) IN
     IF found = {}
     THEN reqs' = [reqs EXCEPT ![r].pc = "create_location"]
     ELSE \E l \in found : reqs' = [reqs EXCEPT ![r].pc = "check", ![r].location = l.id]
  /\ UNCHANGED << now, store >>

\* schemas.LocationCreate(...) validates (an uncaught ValidationError otherwise), then
\* crud.create_location
CurCreateLocation(r) ==
  /\ reqs[r].kind = "current" /\ reqs[r].pc = "create_location"
  /\ LET location == ingest_location(reqs[r].city, reqs[r].weather_data) IN
     IF LocationBase_valid(location)
     THEN /\ locations' = locations \cup {create_location(location)}
          /\ loc_seq' = loc_seq + 1
          /\ reqs' = [reqs EXCEPT ![r].pc = "check", ![r].location = loc_seq,
                                  ![r].created = loc_seq, ![r].wrote = TRUE]
     ELSE /\ reqs' = [reqs EXCEPT ![r] = Finish(reqs[r], 500, [detail |-> << "ValidationError" >>])]
          /\ UNCHANGED << locations, loc_seq >>
  /\ UNCHANGED << now, weather_records, historical_records, wr_seq, hr_seq >>

\* the query for a record of the last minute
CurCheck(r) ==
  /\ reqs[r].kind = "current" /\ reqs[r].pc = "check"
  /\ LET q == [reqs[r] EXCEPT
                 !.checked = now,
                 !.present = { w.id : w \in weather_records },
                 !.norecent = ~ \E w \in weather_records :
                                    /\ w.location_id = reqs[r].location
                                    /\ now - w.timestamp <= 60] IN
     reqs' = [reqs EXCEPT ![r] =
                IF existing_record(reqs[r].location) = {}
                THEN [q EXCEPT !.pc = "insert"]
                ELSE Finish(q, 200, current_response(reqs[r].weather_data, None))]
  /\ UNCHANGED << now, store >>

\* schemas.WeatherRecordCreate(...) validates, crud.create_weather_record inserts,
\* then return weather_data
CurInsert(r) ==
  /\ reqs[r].kind = "current" /\ reqs[r].pc = "insert"
  /\ LET weather == [location_id |-> reqs[r].location,
                      temperature |-> reqs[r].weather_data.temperature,
                      humidity |-> reqs[r].weather_data.humidity,
                      pressure |-> reqs[r].weather_data.pressure,
                      description |-> reqs[r].weather_data.description,
                      icon |-> reqs[r].weather_data.icon]
         row == create_weather_record(weather) IN
     IF ~ WeatherRecordBase_valid(weather)
     THEN /\ reqs' = [reqs EXCEPT ![r] = Finish(reqs[r], 500, [detail |-> << "ValidationError" >>])]
          /\ UNCHANGED << weather_records, wr_seq >>
     ELSE IF fk_ok(reqs[r].location)
     THEN /\ weather_records' = weather_records \cup {row}
          /\ wr_seq' = wr_seq + 1
          /\ reqs' = [reqs EXCEPT ![r] =
                        Finish([reqs[r] EXCEPT !.inserted = row.id, !.wrote = TRUE], 200,
                               current_response(reqs[r].weather_data, row))]
     ELSE /\ reqs' = [reqs EXCEPT ![r] = Finish(reqs[r], 500, [detail |-> << "IntegrityError" >>])]
          /\ UNCHANGED << weather_records, wr_seq >>
  /\ UNCHANGED << now, locations, historical_records, loc_seq, hr_seq >>

\* ------------------------------------- GET /weather/historical/{city}
\* the request arrives and weather_api.get_current_weather calls upstream
HistFetchCity ==
  /\ Len(reqs) < MaxReq
  /\ \E city \in Cities, query \in QueryCoords, ts \in Timestamps,
        up \in CurrentResponses \cup TransportErrors :
       LET q == [NewReq("historical") EXCEPT !.city = city, !.query = query, !.ts = ts,
                                             !.calls = 1] IN
       reqs' = Append(reqs,
                 IF up \in TransportErrors
                 THEN on_weather_api_exception(q, << "Failed to fetch weather data", up.error >>)
                 ELSE [q EXCEPT !.pc = "fetch_historical", !.raw = up,
                                !.weather_data = current_payload(up)])
  /\ UNCHANGED << now, store >>

\* weather_api.get_historical_weather with the coordinates of city_data
HistFetch(r) ==
  /\ reqs[r].kind = "historical" /\ reqs[r].pc = "fetch_historical"
  /\ \E up \in HistoricalResponses \cup TransportErrors :
       LET q == [reqs[r] EXCEPT !.calls = @ + 1] IN
       reqs' = [reqs EXCEPT ![r] =
                  IF up \in TransportErrors
                  THEN on_weather_api_exception(q, << "Failed to fetch historical weather data",
                                                    up.error >>)
                  ELSE IF Len(up.data) = 0
                  THEN on_weather_api_exception(q, << "No historical data available for the specified time" >>)
                  ELSE [q EXCEPT !.pc = "resolve", !.hist_raw = up,
                                 !.hist_data = historical_payload(up)]]
  /\ UNCHANGED << now, store >>

\* crud.get_location_by_city(db, city, city_data["country"])
HistResolve(r) ==
  /\ reqs[r].kind = "historical" /\ reqs[r].pc = "resolve"
  /\ LET found == get_location_by_city(reqs[r].city, reqs[r].weather_data.country) IN
     IF found = {}
     THEN reqs' = [reqs EXCEPT ![r].pc = "create_location"]
     ELSE \E l \in found : reqs' = [reqs EXCEPT ![r].pc = "store", ![r].location = l.id]
  /\ UNCHANGED << now, store >>

\* schemas.LocationCreate(...) validates (an uncaught ValidationError otherwise), then
\* crud.create_location
HistCreateLocation(r) ==
  /\ reqs[r].kind = "historical" /\ reqs[r].pc = "create_location"
  /\ LET location == ingest_location(reqs[r].city, reqs[r].weather_data) IN
     IF LocationBase_valid(location)
     THEN /\ locations' = locations \cup {create_location(location)}
          /\ loc_seq' = loc_seq + 1
          /\ reqs' = [reqs EXCEPT ![r].pc = "store", ![r].location = loc_seq,
                                  ![r].created = loc_seq, ![r].wrote = TRUE]
     ELSE /\ reqs' = [reqs EXCEPT ![r] = Finish(reqs[r], 500, [detail |-> << "ValidationError" >>])]
          /\ UNCHANGED << locations, loc_seq >>
  /\ UNCHANGED << now, weather_records, historical_records, wr_seq, hr_seq >>

\* building HistoricalWeatherRecordCreate reads weather_data["icon"]: a KeyError when
\* the adapter's dict has no such key, which the handler does not catch.  Otherwise
\* crud.create_historical_weather_record: its lookup, then (a statement later) its insert.
HistStore(r) ==
  /\ reqs[r].kind = "historical" /\ reqs[r].pc \in {"store", "historical_insert"}
  /\ IF reqs[r].pc = "store"
     THEN /\ IF "icon" \notin DOMAIN reqs[r].hist_data
             THEN reqs' = [reqs EXCEPT ![r] = Finish(reqs[r], 500, [detail |-> << "KeyError", "icon" >>])]
             ELSE LET weather == [location_id |-> reqs[r].location,
                                  temperature |-> reqs[r].hist_data.temperature,
                                  humidity |-> reqs[r].hist_data.humidity,
                                  pressure |-> reqs[r].hist_data.pressure,
                                  description |-> reqs[r].hist_data.description,
                                  icon |-> reqs[r].hist_data.icon,
                                  query_timestamp |-> fromtimestamp(reqs[r].ts),
                                  timestamp |-> now] IN
                  IF ~ WeatherRecordBase_valid(weather)
                  THEN reqs' = [reqs EXCEPT ![r] = Finish(reqs[r], 500, [detail |-> << "ValidationError" >>])]
                  ELSE IF existing_historical(weather) = {}
                  THEN reqs' = [reqs EXCEPT ![r].pc = "historical_insert", ![r].weather = weather]
                  ELSE \E h \in existing_historical(weather) :
                         reqs' = [reqs EXCEPT ![r] = Finish(reqs[r], 200, h)]
          /\ UNCHANGED << historical_records, hr_seq >>
     ELSE IF fk_ok(reqs[r].location)
          THEN /\ historical_records' = historical_records \cup {new_historical(reqs[r].weather)}
               /\ hr_seq' = hr_seq + 1
               /\ reqs' = [reqs EXCEPT ![r] =
                             Finish([reqs[r] EXCEPT !.inserted = hr_seq, !.wrote = TRUE], 200,
                                    new_historical(reqs[r].weather))]
          ELSE /\ reqs' = [reqs EXCEPT ![r] = Finish(reqs[r], 500, [detail |-> << "IntegrityError" >>])]
               /\ UNCHANGED << historical_records, hr_seq >>
  /\ UNCHANGED << now, locations, weather_records, loc_seq, wr_seq >>

\* ------------------------------------------------------ POST /locations/
\* the request arrives and its body is validated as a LocationCreate;
\* crud.get_location_by_city(db, city=location.city)
PostLookup ==
  /\ Len(reqs) < MaxReq
  /\ \E body \in LocationBodies :
       LET q == [NewReq("create_location") EXCEPT !.city = body.city, !.body = body] IN
       reqs' = Append(reqs,
                 IF ~ LocationBase_valid(body)
                 THEN Finish(q, 422, [detail |-> << "ValidationError" >>])
                 ELSE IF get_location_by_city(body.city, "") # {}
                 THEN Finish(q, 400, [detail |-> << "City already registered" >>])
                 ELSE [q EXCEPT !.pc = "create"])
  /\ UNCHANGED << now, store >>

\* crud.create_location(db, location)
PostCreate(r) ==
  /\ reqs[r].kind = "create_location" /\ reqs[r].pc = "create"
  /\ locations' = locations \cup {create_location(reqs[r].body)}
  /\ loc_seq' = loc_seq + 1
  /\ reqs' = [reqs EXCEPT ![r] =
                Finish([reqs[r] EXCEPT !.location = loc_seq, !.created = loc_seq,
                                       !.wrote = TRUE],
                       200, create_location(reqs[r].body))]
  /\ UNCHANGED << now, weather_records, historical_records, wr_seq, hr_seq >>

\* ------------------------------------------- DELETE /locations/{id}
\* the request arrives; crud.delete_location selects the row
DelLocSelect ==
  /\ Len(reqs) < MaxReq
  /\ \E id \in 1..loc_seq :
       LET q == [NewReq("delete_location") EXCEPT !.target = id] IN
       reqs' = Append(reqs,
                 IF \E l \in locations : l.id = id
                 THEN [q EXCEPT !.pc = "flush", !.location = id]
                 ELSE Finish(q, 404, [detail |-> << "Location not found" >>]))
  /\ UNCHANGED << now, store >>

\* db.delete(db_location); db.commit(): the flush loads both collections of the
\* location and deletes their rows and then the location's.  When another request
\* deleted the row first, the DELETE matches no row, which the ORM reports as a
\* warning or as an error depending on its configuration.  An insert of a row for
\* this location that commits inside the flush is refused by the foreign key, or makes
\* the flush fail with nothing deleted: either way one of the two serial orders.
DelLocFlush(r) ==
  /\ reqs[r].kind = "delete_location" /\ reqs[r].pc = "flush"
  /\ IF fk_ok(reqs[r].target)
     THEN /\ locations' = { l \in locations : l.id # reqs[r].target }
          /\ weather_records' = weather_records \ cascade_weather(reqs[r].target)
          /\ historical_records' = historical_records \ cascade_historical(reqs[r].target)
          /\ reqs' = [reqs EXCEPT ![r] =
                        Finish([reqs[r] EXCEPT !.wrote = TRUE], 200,
                               [message |-> "Location and associated records deleted successfully"])]
     ELSE /\ \E outcome \in {200, 500} :
               reqs' = [reqs EXCEPT ![r] =
                          Finish(reqs[r], outcome,
                                 IF outcome = 200
                                 THEN [message |-> "Location and associated records deleted successfully"]
                                 ELSE [detail |-> << "StaleDataError" >>])]
          /\ UNCHANGED << locations, weather_records, historical_records >>
  /\ UNCHANGED << now, loc_seq, wr_seq, hr_seq >>

\* --------------------------------------------- DELETE /weather/{id}
\* crud.delete_weather_record: select by id, delete, commit
DeleteWeather ==
  /\ Len(reqs) < MaxReq
  /\ \E id \in 1..wr_seq :
       LET q == [NewReq("delete_weather") EXCEPT !.target = id] IN
       IF \E w \in weather_records : w.id = id
       THEN /\ weather_records' = { w \in weather_records : w.id # id }
            /\ reqs' = Append(reqs, Finish([q EXCEPT !.wrote = TRUE], 200,
                                           [message |-> "Weather record deleted successfully"]))
       ELSE /\ reqs' = Append(reqs, Finish(q, 404, [detail |-> << "Weather record not found" >>]))
            /\ UNCHANGED weather_records
  /\ UNCHANGED << now, locations, historical_records, loc_seq, wr_seq, hr_seq >>

\* ------------------------------------------------ PUT /weather/{id}
\* select by id, 404 when absent, else set the two fields and commit
UpdateWeather ==
  /\ Len(reqs) < MaxReq
  /\ \E id \in 1..wr_seq, body \in UpdateBodies :
       LET q == [NewReq("update_weather") EXCEPT !.target = id, !.body = body]
           found == { w \in weather_records : w.id = id } IN
       IF found = {}
       THEN /\ reqs' = Append(reqs, Finish(q, 404, [detail |-> << "Weather record not found" >>]))
            /\ UNCHANGED weather_records
       ELSE \E db_weather \in found :
              /\ weather_records' = (weather_records \ {db_weather})
                                       \cup {apply_update(db_weather, body)}
              /\ reqs' = Append(reqs, Finish([q EXCEPT !.wrote = TRUE], 200,
                                             apply_update(db_weather, body)))
  /\ UNCHANGED << now, locations, historical_records, loc_seq, wr_seq, hr_seq >>

\* --------------------------------------- PUT /historical-weather/{id}
\* select by id, 404 when absent, else set the two fields and commit
UpdateHistorical ==
  /\ Len(reqs) < MaxReq
  /\ \E id \in 1..hr_seq, body \in UpdateBodies :
       LET q == [NewReq("update_historical") EXCEPT !.target = id, !.body = body]
           found == { h \in historical_records : h.id = id } IN
       IF found = {}
       THEN /\ reqs' = Append(reqs, Finish(q, 404,
                                           [detail |-> << "Historical weather record not found" >>]))
            /\ UNCHANGED historical_records
       ELSE \E db_weather \in found :
              /\ historical_records' = (historical_records \ {db_weather})
                                          \cup {apply_update(db_weather, body)}
              /\ reqs' = Append(reqs, Finish([q EXCEPT !.wrote = TRUE], 200,
                                             apply_update(db_weather, body)))
  /\ UNCHANGED << now, locations, weather_records, loc_seq, wr_seq, hr_seq >>

\* ------------------------------------ GET /weather/forecast/{city}
\* days is validated (ge=1, le=5); weather_api.get_weather_forecast calls upstream and
\* converts the first days * 8 entries.  The handler neither reads nor writes the store.
Forecast ==
  /\ Len(reqs) < MaxReq
  /\ \E city \in Cities, days \in DaysInputs, up \in ForecastResponses \cup TransportErrors :
       LET q == [NewReq("forecast") EXCEPT !.city = city, !.days = days] IN
       reqs' = Append(reqs,
                 IF days < 1 \/ days > 5
                 THEN Finish(q, 422, [detail |-> << "ValidationError" >>])
                 ELSE IF up \in TransportErrors
                 THEN on_weather_api_exception([q EXCEPT !.calls = 1],
                                               << "Failed to fetch forecast data", up.error >>)
                 ELSE Finish([q EXCEPT !.calls = 1, !.raw = up], 200,
                             get_weather_forecast(up, days)))
  /\ UNCHANGED << now, store >>

\* ------------------------------------ GET /weather/past_searches/{city}
\* no date filters, skip = 0, limit = 100: one SELECT, answered with its rows.
\* The client reads once every request sent so far has been answered.
read_weather_records ==
  /\ Cardinality({ i \in 1..Len(reqs) : reqs[i].kind = "past_searches" }) < MaxReads
  /\ Live = {}
  /\ \E city \in Cities :
       reqs' = Append(reqs, Finish([NewReq("past_searches") EXCEPT !.city = city], 200,
                                   get_weather_records(city, None, None)))
  /\ UNCHANGED << now, store >>

Next ==
  \/ Tick
  \/ CurFetch
  \/ \E r \in Live : CurResolve(r)
  \/ \E r \in Live : CurCreateLocation(r)
  \/ \E r \in Live : CurCheck(r)
  \/ \E r \in Live : CurInsert(r)
  \/ HistFetchCity
  \/ \E r \in Live : HistFetch(r)
  \/ \E r \in Live : HistResolve(r)
  \/ \E r \in Live : HistCreateLocation(r)
  \/ \E r \in Live : HistStore(r)
  \/ PostLookup
  \/ \E r \in Live : PostCreate(r)
  \/ DelLocSelect
  \/ \E r \in Live : DelLocFlush(r)
  \/ DeleteWeather
  \/ UpdateWeather
  \/ UpdateHistorical

Spec == Init /\ [][Next]_vars

\* the forecast endpoint on its own: it shares no state with the other handlers
NextForecast == Forecast
SpecForecast == Init /\ [][NextForecast]_vars

\* current-weather ingestion and location creation followed by reads of the stored records
NextRoundTrip ==
  \/ Tick
  \/ CurFetch
  \/ \E r \in Live : CurResolve(r)
  \/ \E r \in Live : CurCreateLocation(r)
  \/ \E r \in Live : CurCheck(r)
  \/ \E r \in Live : CurInsert(r)
  \/ PostLookup
  \/ \E r \in Live : PostCreate(r)
  \/ read_weather_records
SpecRoundTrip == Init /\ [][NextRoundTrip]_vars

\* ================================================================ claims
Current200 == { r \in Done : reqs[r].kind = "current" /\ reqs[r].status = 200 }
Historical == { r \in Done : reqs[r].kind = "historical" }
\* a historical request both of whose upstream calls succeeded
HistoricalFetched == { r \in Historical : reqs[r].hist_raw # None }

\* C1: two successful current-weather requests for the same location, the second
\* started after the first completed and checking less than 60 seconds after the
\* first started, do not both insert a WeatherRecord (as long as the record of the
\* first is still stored when the second checks).
C1_SequentialDedup ==
  \A r1 \in Current200, r2 \in Current200 :
    ( /\ r1 \in reqs[r2].after
      /\ reqs[r1].location = reqs[r2].location
      /\ reqs[r2].checked - reqs[r1].started < 60
      /\ reqs[r1].inserted # 0
      /\ reqs[r1].inserted \in reqs[r2].present )
    => reqs[r2].inserted = 0

\* C1 witness: the first request inserted and the second, 30 seconds later, skipped
C1_Witness ==
  \E r1 \in Current200, r2 \in Current200 :
    /\ r1 \in reqs[r2].after
    /\ reqs[r1].location = reqs[r2].location
    /\ reqs[r2].checked - reqs[r1].started = 30
    /\ reqs[r1].inserted # 0
    /\ reqs[r2].inserted = 0

\* C2: two sequential historical requests for the same city and timestamp whose
\* upstream calls succeed both return one and the same stored record, and exactly one
\* row is stored for that location and instant.
C2_IdempotentHistorical ==
  \A r1 \in HistoricalFetched, r2 \in HistoricalFetched :
    ( /\ r1 \in reqs[r2].after
      /\ reqs[r1].city = reqs[r2].city
      /\ reqs[r1].ts = reqs[r2].ts )
    => /\ reqs[r1].status = 200
       /\ reqs[r2].status = 200
       /\ reqs[r1].response = reqs[r2].response
       /\ Cardinality({ h \in historical_records :
                          /\ h.id = reqs[r1].response.id
                          /\ h.query_timestamp = fromtimestamp(reqs[r1].ts) }) = 1

\* C3: a historical request both of whose upstream calls succeeded ends by returning
\* a stored HistoricalWeatherRecord whose query_timestamp is the requested instant.
C3_ReturnsStoredRecord ==
  \A r \in HistoricalFetched :
    /\ reqs[r].status = 200
    /\ reqs[r].response \in historical_records
    /\ reqs[r].response.query_timestamp = fromtimestamp(reqs[r].ts)

Inserter(w) == { r \in 1..Len(reqs) : reqs[r].kind = "current" /\ reqs[r].inserted = w.id }
Overlap(r1, r2) == r1 \notin reqs[r2].after /\ r2 \notin reqs[r1].after
CloseRecords(w1, w2) ==
  /\ w1.id # w2.id
  /\ w1.location_id = w2.location_id
  /\ w1.timestamp - w2.timestamp <= 60
  /\ w2.timestamp - w1.timestamp <= 60

\* C5: two stored WeatherRecords of one location created within 60 seconds of each
\* other exist only when the two requests that inserted them ran concurrently (the
\* witness shows that such a state is reached).
C5_CloseRecordsOnlyByRace ==
  \A w1 \in weather_records, w2 \in weather_records :
    CloseRecords(w1, w2) =>
      \E r1 \in Inserter(w1), r2 \in Inserter(w2) : Overlap(r1, r2)

\* C5 witness: both concurrent requests passed the check and both inserted
C5_Witness ==
  \E w1 \in weather_records, w2 \in weather_records :
    /\ CloseRecords(w1, w2)
    /\ \E r1 \in Inserter(w1), r2 \in Inserter(w2) :
         /\ Overlap(r1, r2)
         /\ reqs[r1].city = reqs[r2].city
         /\ reqs[r1].norecent /\ reqs[r2].norecent

\* C6: no record references a missing Location, and none references a location
\* whose DELETE succeeded.
C6_CascadeNoOrphans ==
  /\ \A w \in weather_records : \E l \in locations : l.id = w.location_id
  /\ \A h \in historical_records : \E l \in locations : l.id = h.location_id
  /\ \A r \in Done :
       (reqs[r].kind = "delete_location" /\ reqs[r].status = 200)
       => /\ \A w \in weather_records : w.location_id # reqs[r].target
          /\ \A h \in historical_records : h.location_id # reqs[r].target
          /\ \A l \in locations : l.id # reqs[r].target

\* C6 witness: a location that had a WeatherRecord was deleted
C6_Witness ==
  \E r \in Done, r0 \in Current200 :
    /\ reqs[r].kind = "delete_location" /\ reqs[r].status = 200 /\ reqs[r].wrote
    /\ reqs[r0].inserted # 0
    /\ reqs[r0].location = reqs[r].target
    /\ r0 \in reqs[r].after

FailureMessages ==
  { << "Failed to fetch weather data", "ConnectionError" >>,
    << "Failed to fetch historical weather data", "ConnectionError" >>,
    << "No historical data available for the specified time" >> }

\* C7: a request one of whose upstream calls failed ends with 503 and the failure
\* message, made no upstream call after the failed one, and wrote nothing.
C7_UpstreamFailure ==
  \A r \in 1..Len(reqs) :
    LET q == reqs[r] IN
    ( /\ q.kind \in {"current", "historical"}
      /\ \/ q.pc = "done" /\ q.raw = None
         \/ q.pc = "done" /\ q.kind = "historical" /\ q.hist_raw = None )
    => /\ q.status = 503
       /\ q.response \in { [detail |-> m] : m \in FailureMessages }
       /\ q.calls = (IF q.raw = None THEN 1 ELSE 2)
       /\ ~ q.wrote /\ q.created = 0 /\ q.inserted = 0 /\ q.location = 0

\* C7 witness: the historical call failed after the current-weather call succeeded,
\* in a store that already holds a location
C7_Witness ==
  \E r \in Historical :
    /\ reqs[r].raw # None /\ reqs[r].hist_raw = None
    /\ reqs[r].status = 503
    /\ locations # {}

\* C8: no two stored Locations have the same country and the same city ignoring case.
C8_LocationsUnique ==
  \A l1 \in locations, l2 \in locations :
    (l1.country = l2.country /\ Lower(l1.city) = Lower(l2.city)) => l1.id = l2.id

\* a WeatherRecord that a PUT /weather/{id} has rewritten since its insertion
Updated(id) ==
  \E u \in Done : /\ reqs[u].kind = "update_weather" /\ reqs[u].status = 200
                   /\ reqs[u].target = id

\* C9: a successful current-weather request that found no WeatherRecord of the last 60
\* seconds for its location inserted one record, for that location and
\* with the adapter's values (which the row keeps until a PUT rewrites it); every
\* inserting request inserted exactly one row.
C9_InsertsOne ==
  /\ \A r \in Current200 :
       reqs[r].norecent =>
         /\ reqs[r].inserted # 0
         /\ \A w \in weather_records :
              (w.id = reqs[r].inserted /\ ~ Updated(w.id)) =>
                /\ w.location_id = reqs[r].location
                /\ w.temperature = reqs[r].weather_data.temperature
                /\ w.humidity = reqs[r].weather_data.humidity
                /\ w.pressure = reqs[r].weather_data.pressure
                /\ w.description = reqs[r].weather_data.description
                /\ w.icon = reqs[r].weather_data.icon
  /\ wr_seq - 1 = Cardinality({ r \in 1..Len(reqs) :
                                  reqs[r].kind = "current" /\ reqs[r].inserted # 0 })

\* C9 witness: a request created the location and inserted; a later request for the
\* same location, with that record older than 60 seconds, inserted again
C9_Witness ==
  \E r1 \in Current200, r2 \in Current200 :
    /\ r1 \in reqs[r2].after
    /\ reqs[r1].created # 0 /\ reqs[r1].inserted # 0
    /\ reqs[r2].location = reqs[r1].location
    /\ reqs[r2].inserted # 0
    /\ \E w \in weather_records :
         w.id = reqs[r1].inserted /\ reqs[r2].checked - w.timestamp > 60
    /\ \E w \in weather_records : w.id = reqs[r2].inserted /\ w.icon = "10d"

\* what the adapter makes of an upstream body, written out independently
ExpectedPayload(data) ==
  [temperature |-> data.main.temp - 27315, humidity |-> data.main.humidity,
   pressure |-> data.main.pressure, description |-> data.weather[1].description,
   icon |-> data.weather[1].icon, latitude |-> data.coord.lat,
   longitude |-> data.coord.lon, country |-> data.sys.country]

\* C10: the body of a successful current-weather response is the adapter's payload of
\* the upstream body, whether or not a record was inserted.
C10_ResponseIsPayload ==
  \A r \in Current200 : reqs[r].response = ExpectedPayload(reqs[r].raw)

\* C10 witness: the same upstream body answered by a request that inserted and by one
\* that skipped
C10_Witness ==
  \E r1 \in Current200, r2 \in Current200 :
    /\ reqs[r1].raw = reqs[r2].raw
    /\ reqs[r1].inserted # 0 /\ reqs[r2].inserted = 0
    /\ reqs[r1].response = reqs[r2].response

\* the request a step has just added
Arrived(kind) == Len(reqs') = Len(reqs) + 1 /\ reqs'[Len(reqs')].kind = kind
\* the rows of a table other than the one with the given id
Others(rows, id) == { x \in rows : x.id # id }

\* C11: a PUT on an existing record changes that record's temperature and description
\* and nothing else in the store; a PUT on a missing id answers 404 and changes nothing.
C11_UpdateFrame ==
  [][ /\ Arrived("update_weather") =>
           LET q == reqs'[Len(reqs')] IN
           IF \E w \in weather_records : w.id = q.target
           THEN /\ q.status = 200
                /\ Others(weather_records', q.target) = Others(weather_records, q.target)
                /\ \A w \in weather_records : w.id = q.target =>
                     \E v \in weather_records' :
                       /\ v.id = w.id /\ v.location_id = w.location_id
                       /\ v.humidity = w.humidity /\ v.pressure = w.pressure
                       /\ v.icon = w.icon /\ v.timestamp = w.timestamp
                       /\ v.temperature = q.body.temperature
                       /\ v.description = q.body.description
                /\ Cardinality(weather_records') = Cardinality(weather_records)
                /\ UNCHANGED << locations, historical_records >>
           ELSE q.status = 404 /\ UNCHANGED store
      /\ Arrived("update_historical") =>
           LET q == reqs'[Len(reqs')] IN
           IF \E h \in historical_records : h.id = q.target
           THEN /\ q.status = 200
                /\ Others(historical_records', q.target) = Others(historical_records, q.target)
                /\ \A h \in historical_records : h.id = q.target =>
                     \E v \in historical_records' :
                       /\ v.id = h.id /\ v.location_id = h.location_id
                       /\ v.humidity = h.humidity /\ v.pressure = h.pressure
                       /\ v.icon = h.icon /\ v.timestamp = h.timestamp
                       /\ v.query_timestamp = h.query_timestamp
                       /\ v.temperature = q.body.temperature
                       /\ v.description = q.body.description
                /\ Cardinality(historical_records') = Cardinality(historical_records)
                /\ UNCHANGED << locations, weather_records >>
           ELSE q.status = 404 /\ UNCHANGED store ]_vars

\* C11 witness: a stored WeatherRecord with icon "10d" and humidity 80 has been updated
C11_Witness ==
  \E r \in Done :
    /\ reqs[r].kind = "update_weather" /\ reqs[r].status = 200
    /\ \E w \in weather_records :
         /\ w.id = reqs[r].target
         /\ w.description = "edited" /\ w.temperature = 500
         /\ w.icon = "10d" /\ w.humidity = 80

\* C12: every stored Location has latitude in [-90, 90] and longitude in [-180, 180],
\* every stored record has humidity in [0, 100], and a POST /locations/ with a
\* coordinate out of range is answered with a validation error and creates nothing.
C12_RangesEnforced ==
  /\ \A l \in locations : /\ l.latitude >= -90 /\ l.latitude <= 90
                          /\ l.longitude >= -180 /\ l.longitude <= 180
  /\ \A w \in weather_records \cup historical_records : w.humidity >= 0 /\ w.humidity <= 100
  /\ \A r \in 1..Len(reqs) :
       ( /\ reqs[r].kind = "create_location"
         /\ \/ reqs[r].body.latitude < -90 \/ reqs[r].body.latitude > 90
            \/ reqs[r].body.longitude < -180 \/ reqs[r].body.longitude > 180 )
       => reqs[r].status = 422 /\ reqs[r].created = 0 /\ ~ reqs[r].wrote

\* C12 witness: a POST with latitude 91 was rejected, and an ingestion whose upstream
\* body has humidity 101 ended without storing a record
C12_Witness ==
  \E r1 \in Done, r2 \in Done :
    /\ reqs[r1].kind = "create_location" /\ reqs[r1].body.latitude = 91
    /\ reqs[r1].status = 422
    /\ reqs[r2].kind = "current" /\ reqs[r2].raw # None
    /\ reqs[r2].raw.main.humidity = 101
    /\ reqs[r2].status = 500

\* C13: for days in 1..5 and an upstream series of n entries the forecast has
\* min(n, 8 * days) points, the first entries of the series in upstream order.
C13_ForecastPrefix ==
  \A r \in Done :
    (reqs[r].kind = "forecast" /\ reqs[r].days \in 1..5 /\ reqs[r].raw # None) =>
      LET series == reqs[r].raw.list
          n == Len(series)
          out == reqs[r].response IN
      /\ reqs[r].status = 200
      /\ Len(out) = (IF n < 8 * reqs[r].days THEN n ELSE 8 * reqs[r].days)
      /\ \A i \in 1..Len(out) :
           /\ out[i].timestamp = fromtimestamp(series[i].dt)
           /\ out[i].temperature = series[i].main.temp - 27315
           /\ out[i].humidity = series[i].main.humidity
           /\ out[i].pressure = series[i].main.pressure
           /\ out[i].description = series[i].weather[1].description
           /\ out[i].icon = series[i].weather[1].icon

\* C13 witness: days = 2 on a series of 17 entries gave 16 points, and days = 5 on a
\* series of 7 entries gave 7
C13_Witness ==
  \E r1 \in Done, r2 \in Done :
    /\ reqs[r1].kind = "forecast" /\ reqs[r1].days = 2 /\ reqs[r1].raw # None
    /\ Len(reqs[r1].raw.list) = 17 /\ Len(reqs[r1].response) = 16
    /\ reqs[r2].kind = "forecast" /\ reqs[r2].days = 5 /\ reqs[r2].raw # None
    /\ Len(reqs[r2].raw.list) = 7 /\ Len(reqs[r2].response) = 7

Ingestion == { r \in 1..Len(reqs) : reqs[r].kind \in {"current", "historical"} }

\* C14 as stated: a Location created by ingestion has the city, country, latitude and
\* longitude that the upstream current-weather response reported.
C14_AllFromUpstream ==
  \A r \in Ingestion : \A l \in locations :
    (reqs[r].created = l.id) =>
      /\ l.city = reqs[r].raw.name
      /\ l.country = reqs[r].raw.sys.country
      /\ l.latitude = reqs[r].raw.coord.lat
      /\ l.longitude = reqs[r].raw.coord.lon

\* C14, amended: a Location created by ingestion has the country, latitude and longitude
\* that the upstream current-weather response reported (never the lat/lon of the query),
\* and as its city the request's path parameter, spelled as the client spelled it.
C14_CreatedFromUpstream ==
  \A r \in Ingestion : \A l \in locations :
    (reqs[r].created = l.id) =>
      /\ l.city = reqs[r].city
      /\ l.country = reqs[r].raw.sys.country
      /\ l.latitude = reqs[r].raw.coord.lat
      /\ l.longitude = reqs[r].raw.coord.lon

\* C14 witness: a request with lat/lon in its query and a city spelled unlike upstream's
\* name created a Location, whose coordinates are not those of the query
C14_Witness ==
  \E r \in Ingestion : \E l \in locations :
    /\ reqs[r].created = l.id
    /\ reqs[r].city # reqs[r].raw.name
    /\ reqs[r].query # None
    /\ l.latitude # reqs[r].query.lat /\ l.longitude # reqs[r].query.lon

\* a step of an ingestion request: it arrives, or it moves on
IngestionStep ==
  \/ Arrived("current") \/ Arrived("historical")
  \/ \E r \in Ingestion : reqs'[r] # reqs[r]

C16_RoundTrip ==
  \A q \in Done :
    reqs[q].kind = "past_searches" =>
      \A r \in reqs[q].after \cap Current200 :
        (reqs[r].inserted # 0 /\ reqs[r].city = reqs[q].city) =>
          \E w \in reqs[q].response : w.id = reqs[r].inserted

====
